---- MODULE Spec2Model ----
(***************************************************************************)
(* lbrxVoice: the inference job orchestration layer.                       *)
(*                                                                         *)
(*  - the batch transcription service (whisper_servers/batch): the job     *)
(*    registry, the asyncio.Semaphore gate, the lazy model load, the       *)
(*    background task _process_job and the synchronous endpoint            *)
(*    POST /v1/audio/transcriptions that polls the job;                    *)
(*  - the DIA TTS REST server (tts_servers/dia/rest_api.py): the global    *)
(*    tts_jobs dictionary, POST /synthesize, the background task           *)
(*    process_tts_job and GET /status/{request_id};                        *)
(*  - the DIA TTS WebSocket server (tts_servers/dia/websocket_server.py):  *)
(*    one connection of /ws/tts, the receive loop of the endpoint and the  *)
(*    process_tts_stream tasks it starts;                                  *)
(*  - the real-time transcription WebSocket (whisper_servers/realtime):    *)
(*    one connection served by transcribe_websocket.                       *)
(*                                                                         *)
(* The asyncio event loop is modelled as it schedules: a task runs from    *)
(* one suspension point to the next without interruption, the steps that   *)
(* are ready run in FIFO order, and worker threads (asyncio.to_thread)     *)
(* return and timers (asyncio.sleep) expire at arbitrary moments.          *)
(***************************************************************************)
EXTENDS Integers, Sequences, FiniteSets, TLC

(* ------------------------------ bounds -------------------------------- *)
MaxJobs == 4        \* submissions to the batch server in one behaviour
MaxSynth == 3       \* submissions to POST /synthesize in one behaviour
MaxIds == 2         \* distinct request_id values a client may send
MaxMsgs == 3        \* messages a client sends on one /ws/tts connection
MaxChunks == 2      \* whole chunks in a generated waveform
MaxFrames == 3      \* frames a client sends on one real-time connection
MaxSubmits == 2     \* synthesis jobs submitted while status is polled
MaxPolls == 2       \* GET /status requests a client issues
NumCodebooks == 2   \* config["num_audio_codebooks"]
NumLayers == 2      \* config["decoder_layers"]
VocabSize == 2      \* config["audio_vocab_size"]
MaxLength == 2      \* largest max_length handed to generate
MaxRuns == 2        \* calls of generate in one behaviour
MaxCallers == 3     \* tasks that call get_dia_instance

(* ------------------------- program constants -------------------------- *)
MAX_CONCURRENT_JOBS == 2
MAX_AUDIO_SIZE_MB == 100
sample_rate == 44100
request_timeout == 300
config_temperature == 80   \* TTSConfig.temperature = 0.8, in hundredths
config_top_p == 95         \* TTSConfig.top_p = 0.95, in hundredths
PollsPerSecond == 2

\* the wall-clock ceiling, counted in sleeps of the poll loop
CeilingPolls == request_timeout * PollsPerSecond

VARIABLES
    maxConcurrent,  \* settings.MAX_CONCURRENT_JOBS as configured (env)
    semaphore,      \* TranscriptionService._semaphore
    model_loaded,   \* TranscriptionService._model_loaded
    loads,          \* number of mlx_whisper.load_model invocations
    jobs,           \* TranscriptionService._jobs, job_id = position
    hist,           \* per job: the values job.status has taken, in order
    pc,             \* per job: where its _process_job task is suspended
    ret,            \* per job: state of the worker thread it awaits
    ready,          \* event loop: the steps scheduled to run, FIFO
    req,            \* per request of create_transcription: its state
    fmt,            \* per request: response_format
    resp,           \* per request: the answer sent
    waited,         \* per request: sleeps of the poll loop that have ended
    horizon,        \* sleeps counted per request (0: time is not observed)
    maxSubmit,      \* submissions allowed in this behaviour
    dia_model,      \* rest_api.dia_model
    tts_jobs,       \* rest_api.tts_jobs: request_id -> job record
    background,     \* accepted submissions whose background task has not run
    accepted,       \* request_id of every submission answered 202, in order
    writes,         \* per request_id: the statuses written under that key
    polls,          \* observations of GET /status/{request_id}
    server,         \* the application this process serves
    upload,         \* per request of create_transcription: the file sent
    lastGet,        \* the last answer of GET /v1/jobs/{job_id}
    results_dir,    \* RESULTS_DIR: the job ids <id> with a file <id>.json
    wsConn,         \* /ws/tts: the connection, open, closing or closed
    wsInbox,        \* messages the client sent, not yet received
    wsClientN,      \* number of messages the client has sent
    wsEndpoint,     \* position of websocket_tts_endpoint
    wsOut,          \* messages the server sent on the connection, in order
    wsTasks,        \* the process_tts_stream tasks, by the request's number
    wsReady,        \* tasks the event loop will run, in order
    wsSleepers,     \* tasks in asyncio.sleep(0.1), by deadline
    wsSeen,         \* messages websocket_tts_endpoint received, in order
    rtLoop,         \* real-time socket: position of transcribe_websocket
    rtInbox,        \* frames the client sent, not yet received
    rtN,            \* number of frames the client has sent
    rtJson,         \* the local name json of transcribe_websocket is bound
    rtOut,           \* messages the server sent on the connection, in order
    submitted,      \* POST /synthesize requests answered 202, with audio_format
    jobQ,           \* background tasks added and not yet started
    running,        \* the process_tts_job call the event loop is executing
    inflight,       \* a GET /status request sent and not yet handled
    npolls,         \* GET /status requests issued
    lastPoll,       \* the last GET /status answer
    ended,          \* jobs whose process_tts_job call returned
    completedJobs,           \* jobs that reached completed, with their audio_url
    output_dir,     \* files of config.output_dir
    lastAudio,      \* the last GET /audio/{filename} answer
    genReq,         \* temperature and top_p of the last TTSRequest
    genHanded,      \* temperature and top_p the server handed to generate
    genArgs,        \* arguments of the running DiaMLX.generate call
    genPc,          \* where that call is
    genSteps,       \* decode steps it performed
    audio_codes,    \* the list audio_codes of generate
    cache,          \* the variable cache of generate
    genDraws,       \* calls of mx.random.categorical
    genResult,      \* what the call returned
    genPrev,        \* result of the call before, if it had the same arguments
    genRuns,        \* calls of generate so far
    dia_instance,   \* the module global _dia_instance
    initializations,\* calls of DIAMLXWrapper.initialize
    callers         \* per task: where it is, and the instance as it got it

batchVars == <<maxConcurrent, semaphore, model_loaded, loads, jobs, hist, pc,
               ret, ready, req, fmt, resp, waited, horizon, maxSubmit>>

ttsVars == <<dia_model, tts_jobs, background, accepted, writes, polls>>

\* the batch endpoints beside the service: uploads and GET /v1/jobs/{job_id}
apiVars == <<upload, lastGet>>

\* what the actions of one application leave alone
wsVars == <<wsConn, wsInbox, wsClientN, wsEndpoint, wsOut, wsTasks, wsReady,
            wsSleepers, wsSeen>>

rtVars == <<rtLoop, rtInbox, rtN, rtJson, rtOut>>

restVars == <<submitted, jobQ, running, inflight, npolls, lastPoll, ended,
              completedJobs, output_dir, lastAudio>>

genVars == <<genReq, genHanded, genArgs, genPc, genSteps, audio_codes, cache,
             genDraws, genResult, genPrev, genRuns>>

diaVars == <<dia_instance, initializations, callers>>

newVars == <<restVars, genVars, diaVars>>

notBatch == <<ttsVars, wsVars, rtVars, server, newVars>>

notTts == <<batchVars, apiVars, results_dir, wsVars, rtVars, server, newVars>>

notWs == <<batchVars, apiVars, results_dir, ttsVars, rtVars, server, newVars>>

notRt == <<batchVars, apiVars, results_dir, ttsVars, wsVars, server, newVars>>

notRest == <<batchVars, apiVars, results_dir, wsVars, rtVars, server,
             dia_model, background, accepted, writes, polls, genVars,
             diaVars>>

notGen == <<batchVars, apiVars, results_dir, ttsVars, wsVars, rtVars, server,
            restVars, diaVars>>

notDia == <<batchVars, apiVars, results_dir, ttsVars, wsVars, rtVars, server,
            restVars, genVars>>

vars == <<batchVars, apiVars, results_dir, ttsVars, wsVars, rtVars, server,
         newVars>>

Min(a, b) == IF a < b THEN a ELSE b

Terminal == {"completed", "failed"}

Formats == {"json", "srt"}

\* sizes of an uploaded file in MB: at the configured maximum and above it
Sizes == {MAX_AUDIO_SIZE_MB, MAX_AUDIO_SIZE_MB + 1}

(* ------------------------- asyncio.Semaphore --------------------------- *)
\* a waiter stays in the deque until its task runs again; woken holds the
\* waiters whose future already has a result
NewSemaphore(n) == [value |-> n, waiters |-> <<>>, woken |-> {}]

\* a gate that never reports itself taken
locked_never(s) == FALSE

locked(s) == s.value = 0 \/ Len(s.waiters) > 0

\* the most recent waiter instead of the oldest
LastPending(s) ==
    LET idx == {i \in 1..Len(s.waiters) : s.waiters[i] \notin s.woken}
    IN  IF idx = {} THEN 0
        ELSE s.waiters[CHOOSE i \in idx : \A k \in idx : i >= k]

\* the oldest waiter whose future is not done, 0 when there is none
FirstPending(s) ==
    LET idx == {i \in 1..Len(s.waiters) : s.waiters[i] \notin s.woken}
    IN  IF idx = {} THEN 0
        ELSE s.waiters[CHOOSE i \in idx : \A k \in idx : i <= k]

\* _wake_up_next: hand a slot to the first waiter that is not done
wake_up_next(s) ==
    LET w == FirstPending(s)
    IN  IF w = 0 THEN [sem |-> s, woke |-> <<>>]
        ELSE [sem |-> [s EXCEPT !.value = @ - 1, !.woken = @ \cup {w}],
              woke |-> <<w>>]

release(s) == wake_up_next([s EXCEPT !.value = @ + 1])

RECURSIVE wake_while_free(_)
wake_while_free(s) ==
    IF s.value > 0 /\ FirstPending(s) # 0
    THEN LET one  == wake_up_next(s)
             rest == wake_while_free(one.sem)
         IN  [sem |-> rest.sem, woke |-> one.woke \o rest.woke]
    ELSE [sem |-> s, woke |-> <<>>]

\* acquire, resumed after its future got a result
resume_acquire(s, j) ==
    wake_while_free([s EXCEPT !.waiters = SelectSeq(@, LAMBDA x : x # j),
                              !.woken = @ \ {j}])

(* ------------------------- TranscriptionJob ---------------------------- *)
NewJob == [status |-> "pending", result |-> "none", error |-> "none"]

SetStatus(job, s) == [job EXCEPT !.status = s]

\* the except branch of _process_job
FailJob(job, e) == [job EXCEPT !.status = "failed", !.error = e]

\* the result file is opened with `async with asyncio.to_thread(open, ...)`:
\* a coroutine is no asynchronous context manager, the statement raises
SaveRaises == TRUE

(* ------------------------------ tts_jobs ------------------------------- *)
RequestIds == 1..MaxIds

NoJob == [status |-> "absent", progress |-> 0, response |-> "none",
          error |-> "none"]

(* ------------------------------- Init ---------------------------------- *)
InitCommon ==
    /\ maxConcurrent \in {1, MAX_CONCURRENT_JOBS}
    /\ semaphore = NewSemaphore(maxConcurrent)
    /\ model_loaded = FALSE
    /\ loads = 0
    /\ jobs = <<>>
    /\ hist = <<>>
    /\ pc = <<>>
    /\ ret = <<>>
    /\ ready = <<>>
    /\ req = <<>>
    /\ fmt = <<>>
    /\ resp = <<>>
    /\ waited = <<>>
    /\ upload = <<>>
    /\ results_dir = {}
    /\ lastGet = [job_id |-> 0, known |-> FALSE, code |-> 0, status |-> "none"]

\* startup_event has run initialize_model; no job has been submitted
InitTts ==
    /\ dia_model = "loaded"
    /\ tts_jobs = [id \in {} |-> NoJob]
    /\ background = {}
    /\ accepted = <<>>
    /\ writes = [id \in RequestIds |-> <<>>]
    /\ polls = {}

\* /ws/tts after manager.connect: the connection is accepted, nothing has
\* been received or sent
InitWs ==
    /\ wsConn = "open"
    /\ wsInbox = <<>>
    /\ wsClientN = 0
    /\ wsEndpoint = "receiving"
    /\ wsOut = <<>>
    /\ wsTasks = <<>>
    /\ wsReady = <<>>
    /\ wsSleepers = <<>>
    /\ wsSeen = <<>>

\* the real-time socket after websocket.accept(): transcribe_websocket has
\* been called and has bound none of its local names yet
InitRest ==
    /\ submitted = <<>>
    /\ jobQ = {}
    /\ running = <<>>
    /\ inflight = <<>>
    /\ npolls = 0
    /\ lastPoll = [request_id |-> 0, during |-> 0, finished |-> FALSE,
                   code |-> 0, status |-> "none", progress |-> 0]
    /\ ended = {}
    /\ completedJobs = {}
    /\ output_dir = {}
    /\ lastAudio = [filename |-> <<0, "none">>, code |-> 0]

None == <<>>

Some(x) == <<x>>

NoArgs == [temperature |-> 0, max_length |-> 0, top |-> <<>>]

InitGen ==
    /\ genReq = [temperature |-> None, top_p |-> None]
    /\ genHanded = None
    /\ genArgs = NoArgs
    /\ genPc = "idle"
    /\ genSteps = 0
    /\ audio_codes = <<>>
    /\ cache = None
    /\ genDraws = 0
    /\ genResult = <<>>
    /\ genPrev = None
    /\ genRuns = 0

Callers == 1..MaxCallers

NoInstance == [initialized |-> FALSE, model |-> "none"]

InitDia ==
    /\ dia_instance = None
    /\ initializations = 0
    /\ callers = [c \in Callers |-> [pc |-> "new", got |-> NoInstance]]

InitNew ==
    /\ InitRest
    /\ InitGen
    /\ InitDia

InitRt ==
    /\ rtLoop = "start"
    /\ rtInbox = <<>>
    /\ rtN = 0
    /\ rtJson = FALSE
    /\ rtOut = <<>>

\* the process that serves application s
InitFor(s) ==
    /\ InitCommon
    /\ InitTts
    /\ InitWs
    /\ InitRt
    /\ InitNew
    /\ horizon = 0
    /\ maxSubmit = MaxJobs
    /\ server = s

Init == InitFor("batch")

\* one synchronous request, its waiting time counted past the ceiling
InitSync ==
    /\ InitCommon
    /\ InitTts
    /\ InitWs
    /\ InitRt
    /\ InitNew
    /\ horizon = CeilingPolls
    /\ maxSubmit = 1
    /\ server = "batch"

(* --------------------- TranscriptionService._process_job --------------- *)
InThread == {"loading", "converting", "transcribing"}

\* the effect of one task step: the semaphore, the tasks it woke, the
\* status values assigned, the job record, the next suspension point
Effect(s, woke, assigned, job, at, isLoaded, nLoads) ==
    [sem |-> s, woke |-> woke, assigned |-> assigned, job |-> job, pc |-> at,
     loaded |-> isLoaded, loads |-> nLoads]

\* inside the gate: status = "processing", then _load_model, which returns
\* at once when the model is loaded and otherwise starts a load in a thread
enter_body(j, s, woke) ==
    Effect(s, woke, <<"processing">>, SetStatus(jobs[j], "processing"),
           IF model_loaded THEN "converting" ELSE "loading",
           model_loaded,
           IF model_loaded THEN loads ELSE loads + 1)

\* the except branch without the release of the slot
exit_failed_keeps_slot(j, job, assigned, e) ==
    Effect(semaphore, <<>>, assigned \o <<"failed">>, FailJob(job, e),
           "done", model_loaded, loads)

\* the except branch, then __aexit__ of the semaphore
exit_failed(j, job, assigned, e) ==
    LET r == release(semaphore)
    IN  Effect(r.sem, r.woke, assigned \o <<"failed">>, FailJob(job, e),
               "done", model_loaded, loads)

exit_completed(j, job) ==
    LET r == release(semaphore)
    IN  Effect(r.sem, r.woke, <<"completed">>, job, "done", model_loaded, loads)

\* transcribe returned: result and status are assigned, then the save runs
finish(j) ==
    LET done == [jobs[j] EXCEPT !.result = "transcript",
                                !.status = "completed"]
    IN  IF SaveRaises
        THEN exit_failed(j, done, <<"completed">>, "save")
        ELSE exit_completed(j, done)

\* the files the step leaves in RESULTS_DIR: job.output_file is
\* <job_id>.json, written only by a save that runs to its end
saved_by_step(j) ==
    IF pc[j] = "transcribing" /\ ret[j] = "ok" /\ ~SaveRaises THEN {j} ELSE {}

process_job_step(j) ==
    CASE pc[j] = "start" ->
           IF ~locked(semaphore)
           THEN enter_body(j, [semaphore EXCEPT !.value = @ - 1], <<>>)
           ELSE Effect([semaphore EXCEPT !.waiters = Append(@, j)], <<>>,
                       <<>>, jobs[j], "acquire", model_loaded, loads)
      [] pc[j] = "acquire" ->
           LET r == resume_acquire(semaphore, j)
           IN  enter_body(j, r.sem, r.woke)
      [] pc[j] = "loading" ->
           IF ret[j] = "ok"
           THEN Effect(semaphore, <<>>, <<>>, jobs[j], "converting", TRUE, loads)
           ELSE exit_failed(j, jobs[j], <<>>, "load")
      [] pc[j] = "converting" ->
           IF ret[j] = "ok"
           THEN Effect(semaphore, <<>>, <<>>, jobs[j], "transcribing",
                       model_loaded, loads)
           ELSE exit_failed(j, jobs[j], <<>>, "convert")
      [] pc[j] = "transcribing" ->
           IF ret[j] = "ok"
           THEN finish(j)
           ELSE exit_failed(j, jobs[j], <<>>, "transcribe")

TaskStep(j) == [kind |-> "task", id |-> j]

PollStep(r) == [kind |-> "poll", id |-> r]

TaskSteps(q) == [i \in 1..Len(q) |-> TaskStep(q[i])]

\* the event loop runs the step at the head of its ready queue: a step of
\* a _process_job task
RunTask ==
    /\ ready # <<>>
    /\ Head(ready).kind = "task"
    /\ LET j == Head(ready).id
           e == process_job_step(j)
       IN  /\ semaphore' = e.sem
           /\ ready' = Tail(ready) \o TaskSteps(e.woke)
           /\ jobs' = [jobs EXCEPT ![j] = e.job]
           /\ hist' = [hist EXCEPT ![j] = @ \o e.assigned]
           /\ pc' = [pc EXCEPT ![j] = e.pc]
           /\ ret' = [ret EXCEPT ![j] = IF e.pc \in InThread THEN "running"
                                         ELSE "none"]
           /\ model_loaded' = e.loaded
           /\ loads' = e.loads
           /\ results_dir' = results_dir \cup saved_by_step(j)
    /\ UNCHANGED <<maxConcurrent, req, fmt, resp, waited, horizon, maxSubmit>>
    /\ UNCHANGED apiVars
    /\ UNCHANGED notBatch

\* a worker thread of asyncio.to_thread returns or raises; the awaiting
\* task is scheduled
ThreadReturn(j, r) ==
    /\ pc[j] \in InThread
    /\ ret[j] = "running"
    /\ ret' = [ret EXCEPT ![j] = r]
    /\ ready' = Append(ready, TaskStep(j))
    /\ UNCHANGED <<maxConcurrent, semaphore, model_loaded, loads, jobs, hist,
                   pc, req, fmt, resp, waited, horizon, maxSubmit>>
    /\ UNCHANGED apiVars
    /\ UNCHANGED results_dir
    /\ UNCHANGED notBatch

(* ------------------- create_job and create_transcription --------------- *)
\* generate_unique_id is uuid4: a fresh id, here the next position
generate_unique_id == Len(jobs) + 1

\* create_job: the job is registered as pending and its task is scheduled
create_job ==
    /\ Len(jobs) < maxSubmit
    /\ LET job_id == generate_unique_id
       IN  /\ jobs' = Append(jobs, NewJob)
           /\ hist' = Append(hist, <<"pending">>)
           /\ pc' = Append(pc, "start")
           /\ ret' = Append(ret, "none")
           /\ ready' = Append(ready, TaskStep(job_id))
    /\ UNCHANGED <<maxConcurrent, semaphore, model_loaded, loads, horizon,
                   maxSubmit>>
    /\ UNCHANGED notBatch

\* the service alone: a caller creates a job
CreateJob ==
    /\ create_job
    /\ UNCHANGED <<req, fmt, resp, waited>>
    /\ UNCHANGED apiVars
    /\ UNCHANGED results_dir

\* POST /v1/audio/transcriptions: the handler creates the job, finds it
\* pending and goes to sleep in its poll loop;
\* is_audio_file is the only validation before the upload is saved: the
\* size of the file and response_format are not looked at
CreateTranscription(f, mb, audioName) ==
    /\ audioName
    /\ create_job
    /\ upload' = Append(upload, [mb |-> mb, job_id |-> generate_unique_id])
    /\ UNCHANGED <<lastGet, results_dir>>
    /\ req' = Append(req, "sleeping")
    /\ fmt' = Append(fmt, f)
    /\ resp' = Append(resp, [code |-> 0, detail |-> "none"])
    /\ waited' = Append(waited, 0)

\* what the handler answers once the loop has ended; an HTTPException
\* raised inside the try block is caught by `except Exception` and
\* answered as 500
Answer(job, f) ==
    IF job.status = "failed"
    THEN [code |-> 500, detail |-> job.error]
    ELSE IF f = "json"
         THEN IF job.result = "none"
              THEN [code |-> 500, detail |-> "missing"]
              ELSE [code |-> 200, detail |-> job.result]
         ELSE [code |-> 500, detail |-> "format"]

\* the timer of `await asyncio.sleep(0.5)` expires: the handler is scheduled
TimerFires(r) ==
    /\ req[r] = "sleeping"
    /\ req' = [req EXCEPT ![r] = "ready"]
    /\ waited' = [waited EXCEPT ![r] = Min(@ + 1, horizon)]
    /\ ready' = Append(ready, PollStep(r))
    /\ UNCHANGED <<maxConcurrent, semaphore, model_loaded, loads, jobs, hist,
                   pc, ret, fmt, resp, horizon, maxSubmit>>
    /\ UNCHANGED apiVars
    /\ UNCHANGED results_dir
    /\ UNCHANGED notBatch

\* the event loop runs the handler: the test of
\* `while job.status not in ["completed", "failed"]`, then the answer or
\* the next sleep
Poll ==
    /\ ready # <<>>
    /\ Head(ready).kind = "poll"
    /\ LET r == Head(ready).id
       IN  IF jobs[r].status \in Terminal
           THEN /\ req' = [req EXCEPT ![r] = "answered"]
                /\ resp' = [resp EXCEPT ![r] = Answer(jobs[r], fmt[r])]
           ELSE /\ req' = [req EXCEPT ![r] = "sleeping"]
                /\ UNCHANGED resp
    /\ ready' = Tail(ready)
    /\ UNCHANGED <<maxConcurrent, semaphore, model_loaded, loads, jobs, hist,
                   pc, ret, fmt, waited, horizon, maxSubmit>>
    /\ UNCHANGED apiVars
    /\ UNCHANGED results_dir
    /\ UNCHANGED notBatch

\* the transcription service: create_job and the tasks it starts
NextBatch ==
    \/ CreateJob
    \/ RunTask
    \/ \E j \in 1..Len(jobs), r \in {"ok", "raise"} : ThreadReturn(j, r)

SpecBatch == Init /\ [][NextBatch]_vars

\* the synchronous endpoint in front of the service
NextSync ==
    \/ \E f \in Formats, mb \in Sizes, audioName \in BOOLEAN :
          CreateTranscription(f, mb, audioName)
    \/ RunTask
    \/ \E j \in 1..Len(jobs), r \in {"ok", "raise"} : ThreadReturn(j, r)
    \/ \E r \in 1..Len(req) : TimerFires(r)
    \/ Poll

SpecSync == InitSync /\ [][NextSync]_vars

(* ----------------------- DIA TTS REST server --------------------------- *)
Outcomes == {"ok", "generate_raises", "decode_raises", "save_raises"}

\* the job record process_tts_job leaves under its key: the record is
\* replaced by "processing", progress 0, then updated to 50 and 80, then
\* replaced by the completed record, or by the failed record in `except`
Processing(p) == [status |-> "processing", progress |-> p,
                  response |-> "none", error |-> "none"]

Completed(id) == [status |-> "completed", progress |-> 100,
                  response |-> id, error |-> "none"]

Failed(o) == [status |-> "failed", progress |-> 0, response |-> "none",
              error |-> o]

\* the records process_tts_job writes under its key, in order
tts_job_writes(id, o) ==
    <<Processing(0)>> \o
    (IF o = "generate_raises" THEN <<Failed(o)>>
     ELSE <<Processing(50)>> \o
          (IF o = "decode_raises" THEN <<Failed(o)>>
           ELSE <<Processing(80)>> \o
                (IF o = "save_raises" THEN <<Failed(o)>>
                 ELSE <<Completed(id)>>)))

\* the record it leaves when it returns
process_tts_job(id, o) ==
    LET w == tts_job_writes(id, o) IN w[Len(w)]

\* POST /synthesize: the request is validated, the task is added to the
\* response's background tasks and 202 is answered; no record is written
Synthesize(id, tooLong) ==
    /\ Len(accepted) < MaxSynth
    /\ ~tooLong
    /\ dia_model # "none"
    /\ background' = background \cup {[n |-> Len(accepted) + 1, request_id |-> id]}
    /\ accepted' = Append(accepted, id)
    /\ UNCHANGED <<dia_model, tts_jobs, writes, polls>>
    /\ UNCHANGED notTts

\* the background task of one answered submission runs; it holds no await,
\* so it runs from its first write to its last without interruption
RunBackground(b, o) ==
    /\ b \in background
    /\ background' = background \ {b}
    /\ tts_jobs' = (b.request_id :> process_tts_job(b.request_id, o)) @@ tts_jobs
    /\ writes' = [writes EXCEPT ![b.request_id] =
                      @ \o <<tts_job_writes(b.request_id, o)[1].status,
                              process_tts_job(b.request_id, o).status>>]
    /\ UNCHANGED <<dia_model, accepted, polls>>
    /\ UNCHANGED notTts

\* GET /status/{request_id}
get_job_status(id) ==
    IF id \notin DOMAIN tts_jobs THEN 404
    ELSE IF tts_jobs[id].status = "completed" THEN 200
    ELSE IF tts_jobs[id].status = "failed" THEN 500
    ELSE 200

Range(q) == {q[i] : i \in 1..Len(q)}

GetStatus(id) ==
    /\ polls' = polls \cup {[request_id |-> id, code |-> get_job_status(id),
                              after202 |-> id \in Range(accepted)]}
    /\ UNCHANGED <<dia_model, tts_jobs, background, accepted, writes>>
    /\ UNCHANGED notTts

NextTts ==
    \/ \E id \in RequestIds, tooLong \in BOOLEAN : Synthesize(id, tooLong)
    \/ \E b \in background, o \in Outcomes : RunBackground(b, o)
    \/ \E id \in RequestIds : GetStatus(id)

SpecTts == InitFor("tts") /\ [][NextTts]_vars

(* ------------- DIA TTS REST server: a job and its pollers --------------- *)
AudioFormat == {"wav", "mp3", "flac", "m4a"}

\* the files save_audio writes for output_path = <job_id>.<format>: WAV and
\* FLAC are written at output_path, MP3 is written as <job_id>.wav, and no
\* branch handles M4A
save_audio(id, f) ==
    IF f \in {"wav", "flac"} THEN {<<id, f>>}
    ELSE IF f = "mp3" THEN {<<id, "wav">>}
    ELSE {}

\* the name in audio_url: output_filename = <job_id>.<audio_format>
audio_url(id, f) == <<id, f>>

\* GET /audio/{filename}
get_audio_file(filename) == IF filename \in output_dir THEN 200 ELSE 404

\* POST /synthesize with an audio_format, handled when the event loop is free
JobSubmit(id, f) ==
    /\ running = <<>>
    /\ Len(submitted) < MaxSubmits
    /\ dia_model # "none"
    /\ submitted' = Append(submitted, [request_id |-> id, audio_format |-> f])
    /\ jobQ' = jobQ \cup {Len(submitted) + 1}
    /\ UNCHANGED <<tts_jobs, running, inflight, npolls, lastPoll, ended, completedJobs,
                   output_dir, lastAudio>>
    /\ UNCHANGED notRest

\* the event loop enters process_tts_job for one background task and writes
\* the first record; o is what generate, codes_to_audio and sf.write will do
JobStart(n, o) ==
    /\ running = <<>>
    /\ n \in jobQ
    /\ jobQ' = jobQ \ {n}
    /\ running' = <<[n |-> n, request_id |-> submitted[n].request_id,
                     audio_format |-> submitted[n].audio_format, o |-> o,
                     k |-> 1]>>
    /\ tts_jobs' = (submitted[n].request_id :>
                        tts_job_writes(submitted[n].request_id, o)[1]) @@ tts_jobs
    /\ UNCHANGED <<submitted, inflight, npolls, lastPoll, ended, completedJobs,
                   output_dir, lastAudio>>
    /\ UNCHANGED notRest

\* process_tts_job goes on to its next write; the function holds no await, so
\* the event loop stays inside it until it returns. The last write of a
\* successful job follows save_audio.
JobStep ==
    /\ running # <<>>
    /\ LET r == running[1]
           w == tts_job_writes(r.request_id, r.o)
           last == r.k + 1 = Len(w)
       IN /\ tts_jobs' = [tts_jobs EXCEPT ![r.request_id] = w[r.k + 1]]
          /\ running' = IF last THEN <<>> ELSE <<[r EXCEPT !.k = r.k + 1]>>
          /\ ended' = IF last THEN ended \cup {r.n} ELSE ended
          /\ output_dir' = IF last /\ r.o = "ok"
                           THEN output_dir \cup save_audio(r.request_id, r.audio_format)
                           ELSE output_dir
          /\ completedJobs' = IF last /\ r.o = "ok"
                     THEN completedJobs \cup {[n |-> r.n,
                                      audio_url |-> audio_url(r.request_id,
                                                              r.audio_format)]}
                     ELSE completedJobs
    /\ UNCHANGED <<submitted, jobQ, inflight, npolls, lastPoll, lastAudio>>
    /\ UNCHANGED notRest

\* a client sends GET /status/{id}; `during` is the job with that id the
\* server is executing at that moment, 0 when there is none
PollIssue(id) ==
    /\ inflight = <<>>
    /\ npolls < MaxPolls
    /\ npolls' = npolls + 1
    /\ inflight' = <<[request_id |-> id,
                      during |-> IF running # <<>> /\ running[1].request_id = id
                                 THEN running[1].n ELSE 0]>>
    /\ UNCHANGED <<tts_jobs, submitted, jobQ, running, lastPoll, ended, completedJobs,
                   output_dir, lastAudio>>
    /\ UNCHANGED notRest

\* the event loop runs get_job_status for the request: it can do so only
\* when it is not inside process_tts_job
PollAnswer ==
    /\ inflight # <<>>
    /\ running = <<>>
    /\ LET id == inflight[1].request_id
           rec == IF id \in DOMAIN tts_jobs THEN tts_jobs[id] ELSE NoJob
       IN lastPoll' = [request_id |-> id, during |-> inflight[1].during,
                       finished |-> inflight[1].during \in ended,
                       code |-> get_job_status(id), status |-> rec.status,
                       progress |-> rec.progress]
    /\ inflight' = <<>>
    /\ UNCHANGED <<tts_jobs, submitted, jobQ, running, npolls, ended, completedJobs,
                   output_dir, lastAudio>>
    /\ UNCHANGED notRest

\* GET /audio/{filename} for the name in the audio_url of a completed job
GetAudio(d) ==
    /\ running = <<>>
    /\ d \in completedJobs
    /\ lastAudio' = [filename |-> d.audio_url, code |-> get_audio_file(d.audio_url)]
    /\ UNCHANGED <<tts_jobs, submitted, jobQ, running, inflight, npolls,
                   lastPoll, ended, completedJobs, output_dir>>
    /\ UNCHANGED notRest

NextJob ==
    \/ \E id \in RequestIds, f \in AudioFormat : JobSubmit(id, f)
    \/ \E n \in jobQ, o \in Outcomes : JobStart(n, o)
    \/ JobStep
    \/ \E id \in RequestIds : PollIssue(id)
    \/ PollAnswer
    \/ \E d \in completedJobs : GetAudio(d)

SpecJob == InitFor("tts") /\ [][NextJob]_vars

(* ------------------- DIA: sampling parameters, decode loop ------------- *)
\* temperature and top_p are floats; the model keeps them in hundredths
Temperatures == {0, 50}

TopPs == {0, 90}

Optional(S) == {None} \cup {Some(x) : x \in S}

\* Python's `value or default`: the default replaces None and every falsy
\* value, 0.0 included
or_default(value, default) ==
    IF value = None \/ value[1] = 0 THEN default ELSE value[1]

\* process_tts_job, synthesize_text_sync and process_tts_stream call
\* dia_model.generate with these keyword arguments of a request
ServerGenerate(t, p) ==
    /\ genReq' = [temperature |-> t, top_p |-> p]
    /\ genHanded' = Some([temperature |-> or_default(t, config_temperature),
                          top_p |-> or_default(p, config_top_p)])
    /\ UNCHANGED <<genArgs, genPc, genSteps, audio_codes, cache, genDraws,
                   genResult, genPrev, genRuns>>
    /\ UNCHANGED notGen

Codebooks == 1..NumCodebooks

Layers == 0..(NumLayers - 1)

Vocab == 0..(VocabSize - 1)

audio_eos_token_id == VocabSize - 1

\* DiaAttention.__call__: the key/value cache it returns, as the number of
\* positions held; a cache is extended only if one was passed in
DiaAttention(c) == IF c # None THEN Some(c[1] + 1) ELSE None

\* DiaDecoderLayer.__call__: the layer cache it returns, a dict with the
\* key "self", or None
DiaDecoderLayer(c) ==
    LET self_cache == IF c # None THEN c[1].self ELSE None
        new_self_cache == DiaAttention(self_cache)
    IN  IF c # None \/ new_self_cache # None
        THEN Some([self |-> new_self_cache]) ELSE None

\* DiaMLXModel.decode_audio: the cache it returns, a dict from layer index to
\* layer cache, or None when the dict is empty
decode_audio(c) ==
    LET layer_cache(i) == IF c # None /\ i \in DOMAIN c[1] THEN Some(c[1][i])
                          ELSE None
        new_layer_cache(i) == DiaDecoderLayer(layer_cache(i))
        kept == {i \in Layers : new_layer_cache(i) # None}
        new_cache == [i \in kept |-> new_layer_cache(i)[1]]
    IN  IF kept # {} THEN Some(new_cache) ELSE None

\* positions the self-attention cache of layer i holds
positions(c, i) ==
    IF c # None /\ i \in DOMAIN c[1] /\ c[1][i].self # None
    THEN c[1][i].self[1] ELSE 0

\* the codes mx.random.categorical can return for one codebook. With a
\* temperature above 0 every code kept by the top-k filter has a positive
\* probability; with temperature 0 the logits are divided by zero and the
\* distribution is not a number, so the code drawn is unspecified. The
\* vocabulary of the model is within the top_k = 50 codes kept.
categorical(temperature) == Vocab

\* mx.any(next_codes == audio_eos_token_id)
has_eos_all(next_codes) ==
    \A cb \in Codebooks : next_codes[cb] = audio_eos_token_id

has_eos(next_codes) ==
    \E cb \in Codebooks : next_codes[cb] = audio_eos_token_id

\* the `break`: the step just performed sampled EOS
sampled_eos(codes) ==
    IF codes = <<>> THEN FALSE ELSE has_eos(codes[Len(codes)])

\* DiaMLX.generate is called: text encoded, audio_codes = [], cache = None.
\* top is the code with the highest logit of each codebook: decode_audio is
\* given the same zero vector and no cache at each step, so the logits are
\* the same at each step of one call.
GenCall(temperature, max_length, top) ==
    /\ genPc \in {"idle", "returned", "raised"}
    /\ genRuns < MaxRuns
    /\ genRuns' = genRuns + 1
    /\ genArgs' = [temperature |-> temperature, max_length |-> max_length,
                   top |-> top]
    /\ genPrev' = IF genPc = "returned" /\ genArgs = genArgs'
                  THEN Some(genResult) ELSE None
    /\ genPc' = "loop"
    /\ genSteps' = 0
    /\ audio_codes' = <<>>
    /\ cache' = None
    /\ genDraws' = 0
    /\ genResult' = <<>>
    /\ UNCHANGED <<genReq, genHanded>>
    /\ UNCHANGED notGen

\* one iteration of `for step in range(max_length)`: decode_audio, one draw
\* per codebook, append; the loop is left after a step that sampled EOS
GenStep(next_codes) ==
    /\ genPc = "loop"
    /\ genSteps < genArgs.max_length
    /\ ~sampled_eos(audio_codes)
    /\ cache' = decode_audio(cache)
    /\ genDraws' = genDraws + NumCodebooks
    /\ audio_codes' = Append(audio_codes, next_codes)
    /\ genSteps' = genSteps + 1
    /\ UNCHANGED <<genReq, genHanded, genArgs, genPc, genResult, genPrev,
                   genRuns>>
    /\ UNCHANGED notGen

\* after the loop: mx.concatenate(audio_codes, axis=-1) is returned; for an
\* empty list the outcome of concatenate is not known: it raises, or it
\* returns an empty array
GenReturn(raises) ==
    /\ genPc = "loop"
    /\ IF genSteps = genArgs.max_length THEN TRUE ELSE sampled_eos(audio_codes)
    /\ genPc' = IF audio_codes = <<>> /\ raises THEN "raised" ELSE "returned"
    /\ genResult' = audio_codes
    /\ UNCHANGED <<genReq, genHanded, genArgs, genSteps, audio_codes, cache,
                   genDraws, genPrev, genRuns>>
    /\ UNCHANGED notGen

NextGen ==
    \/ \E t \in Optional(Temperatures), p \in Optional(TopPs) : ServerGenerate(t, p)
    \/ \E temperature \in {0, config_temperature}, max_length \in 0..MaxLength,
          top \in [Codebooks -> Vocab] : GenCall(temperature, max_length, top)
    \/ \E next_codes \in [Codebooks -> categorical(genArgs.temperature)] :
          GenStep(next_codes)
    \/ \E raises \in BOOLEAN : GenReturn(raises)

SpecGen == InitFor("tts") /\ [][NextGen]_vars

(* ------------------- DIA wrapper: the singleton ------------------------ *)
\* what DIAMLXWrapper.initialize can do: mlx-audio is missing and it returns
\* at once, from_pretrained loads the model, or from_pretrained raises and
\* the handler sets model = None
Loads == {"no_mlx_audio", "loaded", "error"}

\* whether the body of initialize holds an await, that is, whether a task
\* that awaits it can be suspended before it returns
initialize_suspends_once == TRUE

initialize_suspends == FALSE

\* the instance once initialize has returned
initialize(load) ==
    [initialized |-> TRUE, model |-> IF load = "loaded" THEN "loaded" ELSE "none"]

\* one run of a task of the event loop, from where it is to its next
\* suspension: `dia = await get_dia_instance()` and `await dia.generate(..)`
CallerStep(c, load) ==
    /\ callers[c].pc # "done"
    /\ CASE callers[c].pc = "new" /\ dia_instance = None ->
              IF initialize_suspends
              THEN /\ dia_instance' = Some(NoInstance)
                   /\ initializations' = initializations + 1
                   /\ callers' = [callers EXCEPT ![c].pc = "initializing"]
              ELSE /\ dia_instance' = Some(initialize(load))
                   /\ initializations' = initializations + 1
                   /\ callers' = [callers EXCEPT ![c] =
                                     [pc |-> "returned", got |-> initialize(load)]]
         [] callers[c].pc = "new" /\ dia_instance # None ->
              /\ callers' = [callers EXCEPT ![c] =
                                [pc |-> "returned", got |-> dia_instance[1]]]
              /\ UNCHANGED <<dia_instance, initializations>>
         [] callers[c].pc = "initializing" ->
              /\ dia_instance' = Some(initialize(load))
              /\ callers' = [callers EXCEPT ![c] =
                                [pc |-> "returned", got |-> initialize(load)]]
              /\ UNCHANGED initializations
         [] callers[c].pc = "returned" ->
              \* generate: silence at once without a model, else to_thread
              /\ callers' = [callers EXCEPT ![c].pc =
                                IF dia_instance[1].model = "none" THEN "done"
                                ELSE "generating"]
              /\ UNCHANGED <<dia_instance, initializations>>
         [] callers[c].pc = "generating" ->
              /\ callers' = [callers EXCEPT ![c].pc = "done"]
              /\ UNCHANGED <<dia_instance, initializations>>
    /\ UNCHANGED notDia

NextDia == \E c \in Callers, load \in Loads : CallerStep(c, load)

SpecDia == InitFor("tts") /\ [][NextDia]_vars

(* ------------------------- GET /v1/jobs/{job_id} ----------------------- *)
\* the ids a client may ask for: every id create_job can return, and one
\* that it never returns
JobIds == 1..(MaxJobs + 1)

get_job_default(job_id) ==
    IF job_id \in 1..Len(jobs) THEN <<jobs[job_id]>> ELSE <<NewJob>>

\* TranscriptionService.get_job: self._jobs.get(job_id); the empty sequence
\* stands for None
get_job(job_id) ==
    IF job_id \in 1..Len(jobs) THEN <<jobs[job_id]>> ELSE <<>>

\* the answer of the endpoint: 404 when get_job found nothing
job_response(job_id) ==
    LET job == get_job(job_id)
    IN  IF job = <<>>
        THEN [job_id |-> job_id, known |-> FALSE, code |-> 404,
              status |-> "none"]
        ELSE [job_id |-> job_id, known |-> TRUE, code |-> 200,
              status |-> job[1].status]

GetJob(job_id) ==
    /\ lastGet' = job_response(job_id)
    /\ UNCHANGED <<upload, results_dir>>
    /\ UNCHANGED batchVars
    /\ UNCHANGED notBatch

\* one process, batch server or TTS server, with its poll endpoint
NextLookup ==
    \/ server = "batch" /\ CreateJob
    \/ server = "batch" /\ RunTask
    \/ server = "batch" /\ \E j \in 1..Len(jobs), r \in {"ok", "raise"} :
                               ThreadReturn(j, r)
    \/ server = "batch" /\ \E job_id \in JobIds : GetJob(job_id)
    \/ server = "tts" /\ NextTts

SpecLookup == (\E s \in {"batch", "tts"} : InitFor(s)) /\ [][NextLookup]_vars

(* --------------------- DIA TTS WebSocket server ------------------------ *)
\* chunk_size = int(config.sample_rate * 0.5)
chunk_size == sample_rate \div 2

\* len(audio_data) // chunk_size + (1 if len(audio_data) % chunk_size else 0)
total_chunks(len) ==
    len \div chunk_size + (IF len % chunk_size # 0 THEN 1 ELSE 0)

\* lengths of the generated waveform: whole chunks, and one sample more
AudioLengths ==
    {c * chunk_size : c \in 0..MaxChunks}
        \cup {c * chunk_size + 1 : c \in 0..(MaxChunks - 1)}

\* dia_model.generate and codes_to_audio: they raise, or give a waveform
Generations ==
    {[ok |-> FALSE, len |-> 0]} \cup {[ok |-> TRUE, len |-> l] : l \in AudioLengths}

ClientKinds == {"ping", "request", "invalid"}

chunk_message_never_final(k, chunk_index, i, total) ==
    [type |-> "chunk", req |-> k, chunk_index |-> chunk_index,
     is_final |-> (i = total)]

\* TTSStreamChunk(chunk_index=chunk_index, is_final=(i == total_chunks - 1))
chunk_message(k, chunk_index, i, total) ==
    [type |-> "chunk", req |-> k, chunk_index |-> chunk_index,
     is_final |-> (i = total - 1)]

slice_unclamped(len, i) ==
    [start_idx |-> i * chunk_size, end_idx |-> (i + 1) * chunk_size]

\* chunk_audio = audio_data[start_idx:end_idx], by the positions it holds
slice(len, i) ==
    [start_idx |-> i * chunk_size,
     end_idx |-> Min((i + 1) * chunk_size, len)]

\* completion_msg, with total_chunks = chunk_index
completion_msg(k, chunk_index) ==
    [type |-> "completion", req |-> k, chunk_index |-> chunk_index,
     is_final |-> FALSE]

\* {"type": "pong"}; req names the ping it answers
pong(n) ==
    [type |-> "pong", req |-> n, chunk_index |-> 0, is_final |-> FALSE]

\* websocket.send_json on the connection: it returns while the connection
\* is open and raises once it is closed; after the client has closed and
\* before the server has taken notice it may do either
can_send(ok) ==
    /\ wsConn = "open" => ok
    /\ wsConn = "closed" => ~ok

NewTask == [pc |-> "created", len |-> 0, total |-> 0, i |-> 0,
            chunk_index |-> 0, why |-> "none", late |-> FALSE]

\* `except Exception` of process_tts_stream: manager.send_error builds a
\* TTSError, whose timestamp is a datetime, and hands its dict() to
\* send_json, which raises TypeError in json.dumps; nothing is sent and the
\* exception ends the task
crashed(t, why) == [t EXCEPT !.pc = "crashed", !.why = why]

is_ping_never(m) == FALSE

\* data.get("type") == "ping"
is_ping(m) == m.kind = "ping"

\* TTSRequest(**data) validates
is_request(m) == m.kind = "request"

\* the client sends a message
ClientSend(kind) ==
    /\ wsConn = "open"
    /\ wsClientN < MaxMsgs
    /\ wsClientN' = wsClientN + 1
    /\ wsInbox' = Append(wsInbox, [kind |-> kind, n |-> wsClientN + 1])
    /\ UNCHANGED <<wsConn, wsEndpoint, wsOut, wsTasks, wsReady, wsSleepers,
                   wsSeen>>
    /\ UNCHANGED notWs

\* the client closes the connection
ClientDisconnect ==
    /\ wsConn = "open"
    /\ wsConn' = "closing"
    /\ wsInbox' = Append(wsInbox, [kind |-> "disconnect", n |-> 0])
    /\ UNCHANGED <<wsClientN, wsEndpoint, wsOut, wsTasks, wsReady, wsSleepers,
                   wsSeen>>
    /\ UNCHANGED notWs

\* one turn of the loop of websocket_tts_endpoint: receive_json returns the
\* next message or raises WebSocketDisconnect; a ping is answered; a valid
\* request starts a task; for anything else, and when the pong cannot be
\* sent, send_error raises TypeError out of the handler and the framework
\* closes the connection
Receive(ok) ==
    /\ wsEndpoint = "receiving"
    /\ wsInbox # <<>>
    /\ can_send(ok)
    /\ LET m == Head(wsInbox)
       IN  /\ wsSeen' = Append(wsSeen, [kind |-> m.kind, n |-> m.n,
                                        open |-> wsConn = "open"])
           /\ IF m.kind = "disconnect"
              THEN /\ wsEndpoint' = "disconnected"
                   /\ wsConn' = "closed"
                   /\ UNCHANGED <<wsOut, wsTasks, wsReady>>
              ELSE IF is_ping(m) /\ ok
              THEN /\ wsOut' = Append(wsOut, pong(m.n))
                   /\ UNCHANGED <<wsEndpoint, wsConn, wsTasks, wsReady>>
              ELSE IF ~is_ping(m) /\ is_request(m)
              THEN /\ wsTasks' = (m.n :> NewTask) @@ wsTasks
                   /\ wsReady' = Append(wsReady, m.n)
                   /\ UNCHANGED <<wsEndpoint, wsConn, wsOut>>
              ELSE /\ wsEndpoint' = "crashed"
                   /\ wsConn' = "closed"
                   /\ UNCHANGED <<wsOut, wsTasks, wsReady>>
    /\ wsInbox' = Tail(wsInbox)
    /\ UNCHANGED <<wsClientN, wsSleepers>>
    /\ UNCHANGED notWs

\* the body of `for i in range(total_chunks)` up to the sleep, or the
\* completion message after the loop
stream_step(k, t, ok) ==
    IF t.i < t.total
    THEN IF ok
         THEN [task |-> [t EXCEPT !.pc = "sleeping", !.i = @ + 1,
                                  !.chunk_index = @ + 1],
               sent |-> <<chunk_message(k, t.chunk_index, t.i, t.total)
                            @@ slice(t.len, t.i)>>]
         ELSE [task |-> crashed(t, "send"), sent |-> <<>>]
    ELSE IF ok
         THEN [task |-> [t EXCEPT !.pc = "done"],
               sent |-> <<completion_msg(k, t.chunk_index)>>]
         ELSE [task |-> crashed(t, "send"), sent |-> <<>>]

\* what one run of the task does until it suspends or ends
process_tts_stream(k, t, ok, g) ==
    IF t.pc = "created"
    THEN IF g.ok
         THEN stream_step(k, [t EXCEPT !.len = g.len,
                                       !.total = total_chunks(g.len)], ok)
         ELSE [task |-> crashed(t, "generate"), sent |-> <<>>]
    ELSE stream_step(k, t, ok)

\* the event loop runs the next task: from its start, or from the end of
\* its sleep, to its next sleep or its end
RunStream(ok, g) ==
    /\ wsReady # <<>>
    /\ can_send(ok)
    /\ LET k == Head(wsReady)
           r == process_tts_stream(k, wsTasks[k], ok, g)
           t == [r.task EXCEPT !.late = @ \/ wsEndpoint = "disconnected"]
       IN  /\ wsTasks' = [wsTasks EXCEPT ![k] = t]
           /\ wsOut' = wsOut \o r.sent
           /\ wsSleepers' = IF t.pc = "sleeping" THEN Append(wsSleepers, k)
                            ELSE wsSleepers
    /\ wsReady' = Tail(wsReady)
    /\ UNCHANGED <<wsConn, wsInbox, wsClientN, wsEndpoint, wsSeen>>
    /\ UNCHANGED notWs

\* the timer of the earliest asyncio.sleep(0.1) expires
WsTimer ==
    /\ wsSleepers # <<>>
    /\ wsReady' = Append(wsReady, Head(wsSleepers))
    /\ wsSleepers' = Tail(wsSleepers)
    /\ wsTasks' = [wsTasks EXCEPT ![Head(wsSleepers)].pc = "ready"]
    /\ UNCHANGED <<wsConn, wsInbox, wsClientN, wsEndpoint, wsOut, wsSeen>>
    /\ UNCHANGED notWs

NextWs ==
    \/ \E kind \in ClientKinds : ClientSend(kind)
    \/ ClientDisconnect
    \/ \E ok \in BOOLEAN : Receive(ok)
    \/ \E ok \in BOOLEAN, g \in Generations : RunStream(ok, g)
    \/ WsTimer

SpecWs == InitFor("tts_ws") /\ [][NextWs]_vars

(* ------------------ real-time transcription WebSocket ------------------ *)
\* the frames a client may send: binary audio, JSON text with a non-empty
\* "audio" field, JSON text without one, text that is not JSON
FrameKinds == {"binary", "json_audio", "json_no_audio", "not_json"}

IsText(kind) == kind # "binary"

\* the client sends a frame
RtSend(kind) ==
    /\ rtLoop # "ended"
    /\ rtN < MaxFrames
    /\ rtN' = rtN + 1
    /\ rtInbox' = Append(rtInbox, [kind |-> kind, n |-> rtN + 1])
    /\ UNCHANGED <<rtLoop, rtJson, rtOut>>
    /\ UNCHANGED notRt

\* `await self.load_model()` before the loop: when it raises, the
\* exception leaves transcribe_websocket; otherwise the loop is entered
RtStart(loaded) ==
    /\ rtLoop = "start"
    /\ rtLoop' = IF loaded THEN "iterating" ELSE "ended"
    /\ UNCHANGED <<rtInbox, rtN, rtJson, rtOut>>
    /\ UNCHANGED notRt

\* websocket.send(json.dumps(...)): json is a local name of
\* transcribe_websocket, bound by the `import json` of the text branch;
\* where it is not bound yet json.dumps raises UnboundLocalError
reply(bound, n, type) ==
    IF bound THEN <<[to |-> n, type |-> type]>> ELSE <<>>

\* one message of `async for message in websocket`, with the outcome of
\* the transcription. The text branch binds json; JSON without "audio"
\* gets no answer; text that is not JSON is answered with an error and the
\* loop goes on; a transcription that raises, and a json.dumps that
\* raises, end the loop through `except Exception`, whose own send is
\* attempted inside try/except: pass
transcribe_message(m, transcribed) ==
    LET bound == rtJson \/ IsText(m.kind)
    IN  CASE m.kind = "json_no_audio" ->
               [loop |-> "iterating", json |-> bound, sent |-> <<>>]
          [] m.kind = "not_json" ->
               [loop |-> "iterating", json |-> bound,
                sent |-> reply(bound, m.n, "error")]
          [] OTHER ->
               IF transcribed /\ bound
               THEN [loop |-> "iterating", json |-> bound,
                     sent |-> reply(bound, m.n, "result")]
               ELSE [loop |-> "ended", json |-> bound,
                     sent |-> reply(bound, m.n, "error")]

RtReceive(transcribed) ==
    /\ rtLoop = "iterating"
    /\ rtInbox # <<>>
    /\ LET r == transcribe_message(Head(rtInbox), transcribed)
       IN  /\ rtLoop' = r.loop
           /\ rtJson' = r.json
           /\ rtOut' = rtOut \o r.sent
    /\ rtInbox' = Tail(rtInbox)
    /\ UNCHANGED rtN
    /\ UNCHANGED notRt

NextRt ==
    \/ \E kind \in FrameKinds : RtSend(kind)
    \/ \E loaded \in BOOLEAN : RtStart(loaded)
    \/ \E transcribed \in BOOLEAN : RtReceive(transcribed)

SpecRt == InitFor("realtime") /\ [][NextRt]_vars

(* ======================================================================= *)
(*                               Properties                                *)
(* ======================================================================= *)
Created == 1..Len(jobs)

Has(h, v) == \E i \in 1..Len(h) : h[i] = v

IsPrefix(h, l) == Len(h) <= Len(l) /\ h = SubSeq(l, 1, Len(h))

Lifecycles == {<<"pending", "processing", "completed">>,
               <<"pending", "processing", "failed">>}

NowProcessing == {j \in Created : jobs[j].status = "processing"}

\* the jobs that hold a slot of the gate: admitted and not yet out, or
\* handed a slot by release and not yet resumed
InsideGate == {j \in Created : pc[j] \in InThread \/ j \in semaphore.woken}

ForwardPasses == {j \in Created : pc[j] = "transcribing" /\ ret[j] = "running"}

\* C1: the values taken by job.status form a prefix of
\* pending -> processing -> (completed | failed); nothing follows a
\* terminal status
C1_StatusLifecycle ==
    \A j \in Created : \E l \in Lifecycles : IsPrefix(hist[j], l)

\* C2: no two accepted /synthesize submissions share a tts_jobs key, and a
\* key that holds a terminal record is never written again
C2_OwnRecordPerSubmission ==
    /\ \A a, b \in 1..Len(accepted) : a # b => accepted[a] # accepted[b]
    /\ \A id \in RequestIds : Len(writes[id]) <= 2

\* C3: once POST /synthesize has answered 202 for a request_id, GET
\* /status/{request_id} is never answered 404
C3_NoNotFoundAfterAccept ==
    \A p \in polls : p.after202 => p.code # 404

\* C4: at most MAX_CONCURRENT_JOBS jobs have status processing; with one
\* slot, a job is processing only while every earlier admitted job is
\* terminal
C4_AtMostKProcessing ==
    /\ Cardinality(NowProcessing) <= maxConcurrent
    /\ maxConcurrent = 1 =>
          \A a, b \in Created :
              (a # b /\ jobs[b].status = "processing" /\ Has(hist[a], "processing"))
                  => jobs[a].status \in Terminal

\* the gate is full and a further job waits for a slot
C4_GateFull ==
    /\ Cardinality(NowProcessing) = maxConcurrent
    /\ \E j \in Created : pc[j] = "acquire" /\ j \notin semaphore.woken

\* C5: jobs are admitted in submission order: a job created later is never
\* set to processing while an earlier one has not been
C5_FifoAdmission ==
    \A a, b \in Created :
        (a < b /\ Has(hist[b], "processing")) => Has(hist[a], "processing")

\* with one slot, the second job has been admitted while the third, queued
\* behind it, still waits
C5_AdmittedFromQueue ==
    /\ maxConcurrent = 1
    /\ Len(jobs) >= 3
    /\ jobs[1].status \in Terminal
    /\ jobs[2].status = "processing"
    /\ pc[3] = "acquire"

\* C6: the free slots of the gate equal K minus the jobs inside it, on
\* every path; once every task has ended the gate is back to K
C6_SlotsAccounted ==
    /\ semaphore.value = maxConcurrent - Cardinality(InsideGate)
    /\ (\A j \in Created : pc[j] = "done") => semaphore.value = maxConcurrent

\* jobs have failed at load, conversion and transcription, all tasks have
\* ended
C6_AfterFailures ==
    /\ Len(jobs) >= 2
    /\ \A j \in Created : pc[j] = "done"
    /\ \E j \in Created : jobs[j].error \in {"load", "convert", "transcribe"}

\* C7: mlx_whisper.load_model is invoked at most once
C7_SingleLoad == loads <= 1

\* C8: under the default MAX_CONCURRENT_JOBS no two mlx_whisper.transcribe
\* calls run at the same time
C8_OneForwardPass ==
    maxConcurrent = MAX_CONCURRENT_JOBS => Cardinality(ForwardPasses) <= 1

\* C9: when conversion and transcription succeeded the job ends completed
\* with its result and the request is answered 200; a request fails only
\* when the job ended failed, and carries the job's error
C9_SyncReturnsResult ==
    \A r \in 1..Len(req) :
        /\ (pc[r] = "done" /\ jobs[r].result # "none") =>
              /\ jobs[r].status = "completed"
              /\ (req[r] = "answered" /\ fmt[r] = "json") => resp[r].code = 200
        /\ (req[r] = "answered" /\ resp[r].code # 200 /\ fmt[r] = "json") =>
              /\ jobs[r].status = "failed"
              /\ resp[r].detail = jobs[r].error

\* C10: a synchronous request does not go back to sleep once it has waited
\* for the wall-clock ceiling: it has answered by then
C10_NoWaitPastCeiling ==
    \A r \in 1..Len(req) : req[r] = "sleeping" => waited[r] < CeilingPolls

\* the submissions whose background task has run
Ran == {n \in 1..Len(accepted) : \A b \in background : b.n # n}

\* C11: a step in which one job ends failed changes the record of no other
\* job: on the batch server no other entry of the registry, on the TTS
\* server the record of no other submission that has run
C11_FailureIsLocal ==
    [][/\ \A j \in Created :
            (jobs[j].status # "failed" /\ jobs'[j].status = "failed")
                => \A k \in Created \ {j} : jobs'[k] = jobs[k]
       /\ \A b \in background :
            (b \notin background' /\ tts_jobs'[b.request_id].status = "failed")
                => \A m \in Ran : tts_jobs'[accepted[m]] = tts_jobs[accepted[m]]
      ]_vars

\* C12: a poll of an id that no submission returned is answered 404 with no
\* record, and a poll changes neither registry
C12_UnknownIdNotFound ==
    [][/\ lastGet' # lastGet
            => /\ jobs' = jobs
               /\ lastGet'.job_id \notin Created
                    => lastGet'.code = 404 /\ lastGet'.status = "none"
       /\ \A p \in polls' \ polls :
            /\ tts_jobs' = tts_jobs
            /\ p.request_id \notin Range(accepted) => p.code = 404
      ]_vars

\* an unknown id was polled, and answered 404, on a server that holds the
\* records of other submissions
C12_UnknownPolled ==
    \/ /\ server = "batch"
       /\ Len(jobs) > 0
       /\ lastGet.job_id \notin Created
       /\ lastGet.code = 404
    \/ /\ server = "tts"
       /\ DOMAIN tts_jobs # {}
       /\ \E p \in polls : ~p.after202 /\ p.code = 404

\* C13: an upload larger than MAX_AUDIO_SIZE_MB creates no job
C13_OversizeCreatesNoJob ==
    \A r \in 1..Len(upload) :
        upload[r].mb > MAX_AUDIO_SIZE_MB => upload[r].job_id \notin Created

\* C14: a request with an unsupported response_format has no job, and when
\* it is answered the answer is 400
C14_FormatRejectedFirst ==
    \A r \in 1..Len(req) :
        fmt[r] # "json"
            => /\ upload[r].job_id \notin Created
               /\ req[r] = "answered" => resp[r].code = 400

Requests == DOMAIN wsTasks

\* the chunk messages sent for request k, in the order they were sent
ChunksOf(k) ==
    SelectSeq(wsOut, LAMBDA m : m.type = "chunk" /\ m.req = k)

ErrorsOf(k) ==
    SelectSeq(wsOut, LAMBDA m : m.type = "error" /\ m.req = k)

IsStream(m) == m.type \in {"chunk", "completion"}

\* the positions in wsOut of the pongs that answer ping n
PongsFor(n) == {a \in 1..Len(wsOut) : wsOut[a].type = "pong" /\ wsOut[a].req = n}

Pongs == SelectSeq(wsOut, LAMBDA m : m.type = "pong")

\* C15: the j-th chunk message of a request carries chunk_index j - 1, and
\* is_final exactly when it is the last of the request's total_chunks; a
\* request that has sent its completion has sent all its chunks
C15_ChunksInOrder ==
    \A k \in Requests :
        LET c == ChunksOf(k)
        IN  /\ \A j \in 1..Len(c) :
                  /\ c[j].chunk_index = j - 1
                  /\ c[j].is_final <=> (j = wsTasks[k].total)
            /\ Len(c) <= wsTasks[k].total
            /\ wsTasks[k].pc = "done" => Len(c) = wsTasks[k].total

\* a request of several chunks has been streamed to its completion
C15_StreamedToTheEnd ==
    \E k \in Requests :
        /\ wsTasks[k].pc = "done"
        /\ wsTasks[k].total >= 2
        /\ Len(ChunksOf(k)) = wsTasks[k].total

\* C16: on the connection the chunk and completion messages of a request
\* all come before every chunk of a later request
C16_NoInterleaving ==
    \A a, b \in 1..Len(wsOut) :
        (IsStream(wsOut[a]) /\ wsOut[b].type = "chunk"
           /\ wsOut[a].req < wsOut[b].req) => a < b

\* C17: a request whose generation raised has one error message on the
\* connection, and the session is closed
C17_FailureEndsSession ==
    \A k \in Requests :
        wsTasks[k].why = "generate"
            => /\ Len(ErrorsOf(k)) = 1
               /\ wsEndpoint # "receiving"

\* C18: no task of the connection runs on to a send once the endpoint has
\* observed the disconnect
C18_AbandonedOnDisconnect ==
    \A k \in Requests : ~wsTasks[k].late

\* C19: each ping received on the open connection has exactly one pong and
\* no task; the pongs are in the order of the pings; every message of a
\* request sent after a ping comes after that ping's pong
C19_PingPong ==
    /\ \A j \in 1..Len(wsSeen) :
          wsSeen[j].kind = "ping"
             => /\ wsSeen[j].open => Cardinality(PongsFor(wsSeen[j].n)) = 1
                /\ wsSeen[j].n \notin Requests
    /\ \A j \in 1..Len(Pongs) :
          /\ \E i \in 1..Len(wsSeen) :
                wsSeen[i].kind = "ping" /\ wsSeen[i].n = Pongs[j].req
          /\ j > 1 => Pongs[j - 1].req < Pongs[j].req
    /\ \A a, b \in 1..Len(wsOut) :
          (wsOut[a].type = "pong" /\ IsStream(wsOut[b])
             /\ wsOut[a].req < wsOut[b].req) => a < b

\* a ping before a request and a ping after it were answered while the
\* request was being streamed
C19_PingsAroundRequest ==
    /\ Len(Pongs) = 2
    /\ \E k \in Requests :
          /\ Pongs[1].req < k
          /\ k < Pongs[2].req
          /\ Len(ChunksOf(k)) > 0

\* the frames transcribe_websocket has taken from the connection
RtHandled == 1..(rtN - Len(rtInbox))

\* C20: every frame the server has received has exactly one answer on the
\* connection
C20_EveryMessageAnswered ==
    \A n \in RtHandled :
        Cardinality({i \in 1..Len(rtOut) : rtOut[i].to = n}) = 1

\* C30: a job whose status was set to completed has its result in
\* RESULTS_DIR/<job_id>.json
C30_ResultPersisted ==
    \A j \in Created : Has(hist[j], "completed") => j \in results_dir

C28_ChunksTileBuffer ==
    \A k \in Requests :
        LET c == ChunksOf(k)
            t == wsTasks[k]
        IN  /\ \A j \in 1..Len(c) :
                  /\ c[j].start_idx = (IF j = 1 THEN 0 ELSE c[j - 1].end_idx)
                  /\ c[j].start_idx < c[j].end_idx
                  /\ c[j].end_idx - c[j].start_idx <= chunk_size
                  /\ j < t.total => c[j].end_idx - c[j].start_idx = chunk_size
                  /\ c[j].end_idx <= t.len
            /\ t.pc = "done"
                  => /\ Len(c) * chunk_size >= t.len
                     /\ Len(c) > 0 => /\ c[Len(c)].end_idx = t.len
                                      /\ (Len(c) - 1) * chunk_size < t.len
                     /\ Len(c) = 0 => t.len = 0

\* a buffer of one sample more than a whole chunk has been streamed to the
\* end: a full chunk and a last chunk of one sample
C28_ShortLastChunk ==
    \E k \in Requests :
        /\ wsTasks[k].pc = "done"
        /\ wsTasks[k].len = chunk_size + 1
        /\ Len(ChunksOf(k)) = 2

\* C21: a GET /status/{id} issued while the job with that id is executing is
\* answered before the job finishes, with status processing
C21_PollAnsweredDuringJob ==
    lastPoll.during # 0 =>
        /\ ~lastPoll.finished
        /\ lastPoll.status = "processing"

\* C22: for every job that reached completed, whatever its audio_format, the
\* file named by its audio_url is in the output directory and GET /audio for
\* that name answers 200
C22_AudioUrlNamesWrittenFile ==
    /\ \A d \in completedJobs : d.audio_url \in output_dir
    /\ \A d \in completedJobs : lastAudio.filename = d.audio_url => lastAudio.code = 200

\* the sequence greedy decoding returns: the highest-logit codes at each step
Greedy(args, n) == [i \in 1..n |-> args.top]

\* C23: a generate call with temperature 0 draws nothing from the random
\* source and returns the highest-logit code of each codebook at each step,
\* so two calls with the same arguments return the same sequence
C23_GreedyAtZeroTemperature ==
    (genPc = "returned" /\ genArgs.temperature = 0) =>
        /\ genDraws = 0
        /\ genResult = Greedy(genArgs, Len(genResult))
        /\ genPrev # None => genPrev[1] = genResult

\* C25: generate performs at most max_length decode steps, no step before
\* the last one sampled EOS in any codebook, a call that stopped before
\* max_length stopped at a step with EOS, and the sequence returned holds
\* the codes of exactly the steps performed
C25_StopsAtEosOrMaxLength ==
    /\ genSteps <= genArgs.max_length
    /\ Len(audio_codes) = genSteps
    /\ \A i \in 1..(Len(audio_codes) - 1) :
           \A cb \in Codebooks : audio_codes[i][cb] # audio_eos_token_id
    /\ genPc = "returned" =>
           /\ genResult = audio_codes
           /\ \/ genSteps = genArgs.max_length
              \/ \E cb \in Codebooks :
                     audio_codes[genSteps][cb] = audio_eos_token_id

\* a call that returned at its first step, below max_length, because one
\* codebook sampled EOS and the other did not
C25_StoppedAtEos ==
    /\ genPc = "returned"
    /\ genSteps = 1
    /\ genArgs.max_length = MaxLength
    /\ audio_codes[1][1] = audio_eos_token_id
    /\ audio_codes[1][NumCodebooks] # audio_eos_token_id

\* C26: after the n-th decode step the self-attention cache of every decoder
\* layer holds n positions
C26_CacheGrowsByOne ==
    genPc = "loop" => \A i \in Layers : positions(cache, i) = genSteps

\* C29: the temperature and top_p of the request are handed to generate, the
\* configured default only where the request holds none
C29_SuppliedValuesHandedOver ==
    genHanded # None =>
        /\ genHanded[1].temperature =
               (IF genReq.temperature = None THEN config_temperature
                ELSE genReq.temperature[1])
        /\ genHanded[1].top_p =
               (IF genReq.top_p = None THEN config_top_p ELSE genReq.top_p[1])

\* the tasks that have obtained the instance from get_dia_instance
Obtained == {c \in Callers : callers[c].pc \in {"returned", "generating", "done"}}

\* C27: every task that obtained the singleton obtained it after its
\* initialize had returned, and initialize ran once for all of them
C27_InstanceInitializedWhenObtained ==
    /\ \A c \in Obtained : callers[c].got.initialized
    /\ \A c \in Obtained : callers[c].got = dia_instance[1]
    /\ initializations <= 1

\* two tasks hold the loaded singleton, and one of them is generating
C27_TwoCallersOneLoad ==
    /\ Cardinality(Obtained) >= 2
    /\ initializations = 1
    /\ dia_instance[1].model = "loaded"
    /\ \E c \in Callers : callers[c].pc = "generating"

====
